---- MODULE Spec2Model ----
(***************************************************************************)
(* Model of app/main.py, the composition root of the supply-chain API:     *)
(* the lifespan hook (init_database, AI-availability flag, shutdown        *)
(* notice), the CORS middleware, the optional /static mount, the           *)
(* /favicon.ico, / and /health handlers, the five route groups and the     *)
(* catch-all exception handler, run by the uvicorn entry point.            *)
(*                                                                         *)
(* The initial state is the state right after the module has been loaded   *)
(* (lines 16-128 executed once): the app exists, the flag holds its        *)
(* default, the middleware is attached and the static mount is decided.    *)
(*                                                                         *)
(* Not modelled: the "timestamp" field of /health (datetime.now(), read by *)
(* no property below) and the bytes of served files.                       *)
(***************************************************************************)
EXTENDS Naturals, Sequences, FiniteSets

VARIABLES
    phase,             \* server lifecycle: not_started, starting, serving, stopping, stopped, aborted
    pc,                \* position inside lifespan(): idle, init_database, expose_flag, yield, yielded, done, raised
    gemini_available,  \* app.state.gemini_available
    static_mounted,    \* whether app.mount("/static", ...) was executed at load
    client_url,        \* os.getenv("CLIENT_URL") at load: <<>> when unset, <<url>> when set
    dir_exists,        \* the file system now: os.path.isdir(static_dir)
    file_exists,       \* the file system now: os.path.exists(static_dir/favicon.svg)
    inflight,          \* requests accepted and not yet answered
    responses,         \* request id -> the response sent, or NoResponse
    next_id,           \* number of requests accepted so far
    db_result,         \* history: outcome of init_database(): none, ok, failed
    cfg_result,        \* history: outcome of get_config() inside lifespan
    flag_writes,       \* history: number of assignments to the flag after construction
    startup_count,     \* history: number of times the startup part of lifespan was entered
    shutdown_count,    \* history: number of shutdown notifications printed
    dir_at_load        \* history: os.path.isdir(static_dir) when the module was loaded

vars == <<phase, pc, gemini_available, static_mounted, client_url, dir_exists,
          file_exists, inflight, responses, next_id, db_result, cfg_result,
          flag_writes, startup_count, shutdown_count, dir_at_load>>

----------------------------------------------------------------------------
(* Bounds *)

\* Number of requests the server accepts in one run.
MaxRequests == 2

RequestIds == 1..MaxRequests

----------------------------------------------------------------------------
(* Values *)

\* Python's None / an unset environment variable is <<>>, a string s is <<s>>.
None == <<>>

Some(s) == <<s>>

\* The credential values get_config() may return in gemini_api_key.
Credentials == {None, Some(""), Some("AIza-key")}

\* bool(x) for x an optional string: None and "" are falsy.
Bool(x) == x # None /\ x[1] # ""

\* get_config() inside lifespan either returns a snapshot or raises.
ConfigOutcomes ==
    {[status |-> "ok", gemini_api_key |-> k] : k \in Credentials}
        \cup {[status |-> "failed", gemini_api_key |-> None]}

ConfigUnread == [status |-> "unread", gemini_api_key |-> None]

\* init_database() either returns or raises.
DatabaseOutcomes == {"ok", "failed"}

\* The text of an exception a route handler may raise.
ExceptionTexts == {"sqlite3.OperationalError: no such table: inventory"}

\* What a handler of a route group may do: answer (any response produced inside
\* the middleware stack), or raise an exception nothing inside the stack handles.
RouteGroupOutcomes ==
    {[kind |-> "ok", text |-> ""]} \cup {[kind |-> "raises", text |-> t] : t \in ExceptionTexts}

\* The prefixes of lines 80-84.
RouterPrefixes == {"/api/demand", "/api/inventory", "/api/logistics",
                   "/api/scenarios", "/api/reports"}

Paths == {"/", "/health", "/favicon.ico", "/static/favicon.svg", "/unknown"}
            \cup RouterPrefixes

----------------------------------------------------------------------------
(* Responses *)

\* The CORS policy attached at lines 56-62.
CorsPolicy(url) ==
    [allow_origins     |-> <<IF url = None THEN "*" ELSE url[1]>>,
     allow_credentials |-> TRUE,
     allow_methods     |-> <<"*">>,
     allow_headers     |-> <<"*">>]

\* A response that did not pass through the CORS middleware carries no policy.
NoCors ==
    [allow_origins     |-> <<>>,
     allow_credentials |-> FALSE,
     allow_methods     |-> <<>>,
     allow_headers     |-> <<>>]

\* What a handler read when it ran (recorded with the response).
Seen(flag, file) == [flag |-> flag, file |-> file]

NothingSeen == Seen(FALSE, FALSE)

Response(path, status, body, via, exc, seen) ==
    [path |-> path, status |-> status, body |-> body, via |-> via,
     exc |-> exc, seen |-> seen, cors |-> NoCors]

NoResponse == Response("", 0, [none |-> TRUE], "none", "", NothingSeen)

\* Variant of favicon: a missing file is reported with an error status.
favicon_raises(file) ==
    IF file
    THEN [status |-> 200,
          body |-> [file |-> "static/favicon.svg", media_type |-> "image/svg+xml"]]
    ELSE [status |-> 404, body |-> [detail |-> "favicon not found"]]

\* favicon(), lines 70-76.
favicon(file) ==
    IF file
    THEN [status |-> 200,
          body |-> [file |-> "static/favicon.svg", media_type |-> "image/svg+xml"]]
    ELSE [status |-> 200, body |-> [detail |-> "favicon not found"]]

\* root(), lines 88-103.
root ==
    [status |-> 200,
     body |-> [name |-> "AI Supply Chain Management Platform",
               version |-> "1.0.0",
               description |-> "AI-powered supply chain management for Indian retail businesses",
               ai_model |-> "Gemini 2.5 Pro",
               market_focus |-> "Indian Retail MSME",
               endpoints |-> [demand_forecasting   |-> "/api/demand/forecast",
                              inventory_management |-> "/api/inventory/",
                              logistics_tracking   |-> "/api/logistics/shipments",
                              scenario_analysis    |-> "/api/scenarios/analyze",
                              reports              |-> "/api/reports/"]]]

\* health_check(), lines 107-115 (without the timestamp).
health_check(flag) ==
    [status |-> 200,
     body |-> [status    |-> "healthy",
               version   |-> "1.0.0",
               ai_status |-> IF flag THEN "operational" ELSE "unavailable",
               database  |-> "connected"]]

\* Variant of global_exception_handler: the message is the exception's text.
global_exception_handler_leaks(exc) ==
    [status |-> 500,
     body |-> [success |-> FALSE,
               error   |-> "Internal server error",
               message |-> exc]]

\* global_exception_handler(request, exc), lines 119-128.
global_exception_handler(exc) ==
    [status |-> 500,
     body |-> [success |-> FALSE,
               error   |-> "Internal server error",
               message |-> "Something went wrong. Please try again."]]

\* The router's answer to a path no route or mount matches.
not_found == [status |-> 404, body |-> [detail |-> "Not Found"]]

\* The /static mount, when registered, serves the files of static_dir.
static_files(file) ==
    IF file
    THEN [status |-> 200, body |-> [file |-> "static/favicon.svg", media_type |-> "image/svg+xml"]]
    ELSE not_found

\* The middleware stack of the app: the handler registered for Exception runs
\* in the outermost (server-error) layer, the CORS middleware added at line 56
\* wraps the router and the handlers of HTTPException inside it.
ThroughCors(r, url) == [r EXCEPT !.cors = CorsPolicy(url)]

----------------------------------------------------------------------------
(* Module load *)

\* Variant of default_gemini_available: the flag starts out set.
default_gemini_available_set == TRUE

\* Line 53: the flag's value at construction.
default_gemini_available == FALSE

\* Lines 65-67: the mount is registered iff the directory exists at load.
static_dir_mounted(isdir) == isdir

ClientUrls == {None, Some("https://shop.example.in")}

Init ==
    /\ phase = "not_started"
    /\ pc = "idle"
    /\ gemini_available = default_gemini_available
    /\ client_url \in ClientUrls
    /\ dir_exists \in BOOLEAN
    /\ file_exists \in BOOLEAN
    /\ file_exists => dir_exists
    /\ static_mounted = static_dir_mounted(dir_exists)
    /\ dir_at_load = dir_exists
    /\ inflight = {}
    /\ responses = [i \in RequestIds |-> NoResponse]
    /\ next_id = 0
    /\ db_result = "none"
    /\ cfg_result = ConfigUnread
    /\ flag_writes = 0
    /\ startup_count = 0
    /\ shutdown_count = 0

----------------------------------------------------------------------------
(* Lifecycle: uvicorn.run (lines 132-141) driving lifespan (lines 22-39) *)

\* Variant of Run: lifespan computes the flag first, without init_database.
RunFlagFirst ==
    /\ phase = "not_started"
    /\ phase' = "starting"
    /\ pc' = "expose_flag"
    /\ startup_count' = startup_count + 1
    /\ UNCHANGED <<gemini_available, static_mounted, client_url, dir_exists, file_exists,
                   inflight, responses, next_id, db_result, cfg_result, flag_writes,
                   shutdown_count, dir_at_load>>

\* The server starts and enters the startup part of lifespan.
Run ==
    /\ phase = "not_started"
    /\ phase' = "starting"
    /\ pc' = "init_database"
    /\ startup_count' = startup_count + 1
    /\ UNCHANGED <<gemini_available, static_mounted, client_url, dir_exists, file_exists,
                   inflight, responses, next_id, db_result, cfg_result, flag_writes,
                   shutdown_count, dir_at_load>>

\* Variant of InitDatabase: a failure of init_database() is swallowed.
InitDatabaseSwallowed ==
    /\ pc = "init_database"
    /\ \E o \in DatabaseOutcomes : db_result' = o
    /\ pc' = "expose_flag"
    /\ UNCHANGED <<phase, gemini_available, static_mounted, client_url, dir_exists,
                   file_exists, inflight, responses, next_id, cfg_result, flag_writes,
                   startup_count, shutdown_count, dir_at_load>>

\* Line 26: init_database() is called outside any try block, so an exception
\* leaves lifespan before the yield and the server gives up starting.
InitDatabase ==
    /\ pc = "init_database"
    /\ \E o \in DatabaseOutcomes :
          /\ db_result' = o
          /\ pc' = IF o = "ok" THEN "expose_flag" ELSE "raised"
          /\ phase' = IF o = "ok" THEN phase ELSE "aborted"
    /\ UNCHANGED <<gemini_available, static_mounted, client_url, dir_exists, file_exists,
                   inflight, responses, next_id, cfg_result, flag_writes,
                   startup_count, shutdown_count, dir_at_load>>

\* Variant of ExposedFlag: the truth test of the credential is inverted.
ExposedFlagInverted(c) == IF c.status = "ok" THEN ~Bool(c.gemini_api_key) ELSE FALSE

\* Lines 30-34: the value assigned to the flag for an outcome of get_config().
ExposedFlag(c) == IF c.status = "ok" THEN Bool(c.gemini_api_key) ELSE FALSE

\* Variant of ExposeFlag: no except clause, a failure of get_config() leaves
\* lifespan like a failure of init_database() does.
ExposeFlagPropagates ==
    /\ pc = "expose_flag"
    /\ \E c \in ConfigOutcomes :
          /\ cfg_result' = c
          /\ IF c.status = "ok"
             THEN /\ gemini_available' = Bool(c.gemini_api_key)
                  /\ flag_writes' = flag_writes + 1
                  /\ pc' = "yield"
                  /\ phase' = phase
             ELSE /\ pc' = "raised"
                  /\ phase' = "aborted"
                  /\ UNCHANGED <<gemini_available, flag_writes>>
    /\ UNCHANGED <<static_mounted, client_url, dir_exists, file_exists, inflight,
                   responses, next_id, db_result, startup_count, shutdown_count,
                   dir_at_load>>

\* Lines 29-34: get_config() is called inside try/except Exception, so either
\* outcome ends in one assignment to the flag and lifespan goes on to the yield.
ExposeFlag ==
    /\ pc = "expose_flag"
    /\ \E c \in ConfigOutcomes :
          /\ cfg_result' = c
          /\ gemini_available' = ExposedFlag(c)
    /\ flag_writes' = flag_writes + 1
    /\ pc' = "yield"
    /\ UNCHANGED <<phase, static_mounted, client_url, dir_exists, file_exists, inflight,
                   responses, next_id, db_result, startup_count, shutdown_count,
                   dir_at_load>>

\* Line 36: startup is complete, the server begins to accept requests.
Yield ==
    /\ pc = "yield"
    /\ pc' = "yielded"
    /\ phase' = "serving"
    /\ UNCHANGED <<gemini_available, static_mounted, client_url, dir_exists, file_exists,
                   inflight, responses, next_id, db_result, cfg_result, flag_writes,
                   startup_count, shutdown_count, dir_at_load>>

\* The shutdown signal: the server stops accepting new requests.
Stop ==
    /\ phase = "serving"
    /\ phase' = "stopping"
    /\ UNCHANGED <<pc, gemini_available, static_mounted, client_url, dir_exists,
                   file_exists, inflight, responses, next_id, db_result, cfg_result,
                   flag_writes, startup_count, shutdown_count, dir_at_load>>

\* Variant of Shutdown: the shutdown part also resets the flag.
ShutdownClearsFlag ==
    /\ phase = "stopping"
    /\ pc = "yielded"
    /\ inflight = {}
    /\ pc' = "done"
    /\ phase' = "stopped"
    /\ shutdown_count' = shutdown_count + 1
    /\ gemini_available' = FALSE
    /\ UNCHANGED <<static_mounted, client_url, dir_exists, file_exists,
                   inflight, responses, next_id, db_result, cfg_result, flag_writes,
                   startup_count, dir_at_load>>

\* Lines 38-39: the part of lifespan after the yield, resumed once the
\* accepted requests have been answered.
Shutdown ==
    /\ phase = "stopping"
    /\ pc = "yielded"
    /\ inflight = {}
    /\ pc' = "done"
    /\ phase' = "stopped"
    /\ shutdown_count' = shutdown_count + 1
    /\ UNCHANGED <<gemini_available, static_mounted, client_url, dir_exists, file_exists,
                   inflight, responses, next_id, db_result, cfg_result, flag_writes,
                   startup_count, dir_at_load>>

\* Someone creates or removes the static directory or favicon.svg.
FsChange ==
    /\ phase \notin {"stopped", "aborted"}
    /\ \E d \in BOOLEAN, f \in BOOLEAN :
          /\ f => d
          /\ <<d, f>> # <<dir_exists, file_exists>>
          /\ dir_exists' = d
          /\ file_exists' = f
    /\ UNCHANGED <<phase, pc, gemini_available, static_mounted, client_url, inflight,
                   responses, next_id, db_result, cfg_result, flag_writes,
                   startup_count, shutdown_count, dir_at_load>>

----------------------------------------------------------------------------
(* Requests *)

\* The server accepts a request only while it is serving.
Accept ==
    /\ phase = "serving"
    /\ next_id < MaxRequests
    /\ \E p \in Paths :
          inflight' = inflight \cup {[id |-> next_id + 1, path |-> p]}
    /\ next_id' = next_id + 1
    /\ UNCHANGED <<phase, pc, gemini_available, static_mounted, client_url, dir_exists,
                   file_exists, responses, db_result, cfg_result, flag_writes,
                   startup_count, shutdown_count, dir_at_load>>

\* Sending the response of request q; nothing else of the server changes.
Answer(q, r) ==
    /\ responses' = [responses EXCEPT ![q.id] = r]
    /\ inflight' = inflight \ {q}
    /\ UNCHANGED <<phase, pc, gemini_available, static_mounted, client_url, dir_exists,
                   file_exists, next_id, db_result, cfg_result, flag_writes,
                   startup_count, shutdown_count, dir_at_load>>

\* A route's return value sent through the middleware stack.
Routed(q, r, via, seen) ==
    ThroughCors(Response(q.path, r.status, r.body, via, "", seen), client_url)

\* GET /favicon.ico, lines 70-76: os.path.exists is evaluated per request.
Favicon ==
    \E q \in inflight :
        /\ q.path = "/favicon.ico"
        /\ Answer(q, Routed(q, favicon(file_exists), "favicon",
                             Seen(FALSE, file_exists)))

\* GET /, lines 88-103.
Root ==
    \E q \in inflight :
        /\ q.path = "/"
        /\ Answer(q, Routed(q, root, "root", NothingSeen))

\* GET /health, lines 107-115.
HealthCheck ==
    \E q \in inflight :
        /\ q.path = "/health"
        /\ Answer(q, Routed(q, health_check(gemini_available), "health_check",
                             Seen(gemini_available, FALSE)))

\* Variant of Static: the directory is tested at every request, not at load.
StaticFollowsDirectory ==
    \E q \in inflight :
        /\ q.path = "/static/favicon.svg"
        /\ IF dir_exists
           THEN Answer(q, Routed(q, static_files(file_exists), "static_mount",
                                 Seen(FALSE, file_exists)))
           ELSE Answer(q, Routed(q, not_found, "router_not_found",
                                 Seen(FALSE, file_exists)))

\* GET /static/favicon.svg: served by the mount of line 67 if it was registered
\* at load, and by no route otherwise.
Static ==
    \E q \in inflight :
        /\ q.path = "/static/favicon.svg"
        /\ IF static_mounted
           THEN Answer(q, Routed(q, static_files(file_exists), "static_mount",
                                 Seen(FALSE, file_exists)))
           ELSE Answer(q, Routed(q, not_found, "router_not_found",
                                 Seen(FALSE, file_exists)))

\* A path nothing is registered for.
NotFound ==
    \E q \in inflight :
        /\ q.path = "/unknown"
        /\ Answer(q, Routed(q, not_found, "router_not_found", NothingSeen))

\* The response to a request whose route handler raised exc: the handler of
\* lines 119-128, registered for Exception, answers from outside the CORS
\* middleware.
Unhandled(q, exc) ==
    LET r == global_exception_handler(exc)
    IN  Response(q.path, r.status, r.body, "global_exception_handler", exc, NothingSeen)

\* A request under one of the prefixes of lines 80-84, delegated to its group.
RouteGroup ==
    \E q \in inflight :
        /\ q.path \in RouterPrefixes
        /\ \E o \in RouteGroupOutcomes :
              IF o.kind = "ok"
              THEN Answer(q, Routed(q, [status |-> 200, body |-> [delegated |-> q.path]],
                                    "route_group", NothingSeen))
              ELSE Answer(q, Unhandled(q, o.text))

Next ==
    \/ Run
    \/ InitDatabase
    \/ ExposeFlag
    \/ Yield
    \/ Accept
    \/ Favicon
    \/ Root
    \/ HealthCheck
    \/ Static
    \/ NotFound
    \/ RouteGroup
    \/ Stop
    \/ Shutdown
    \/ FsChange

Spec == Init /\ [][Next]_vars

----------------------------------------------------------------------------
(* Properties *)

Answered == {i \in RequestIds : responses[i] # NoResponse}

\* The requests answered by the step under consideration.
NewlyAnswered == {i \in RequestIds : responses[i] = NoResponse /\ responses'[i] # NoResponse}

HealthAnswers == {i \in Answered : responses[i].via = "health_check"}

NonEmptyCredentialRead ==
    /\ cfg_result.status = "ok"
    /\ cfg_result.gemini_api_key \notin {None, Some("")}

\* C1: once startup has read a non-empty gemini_api_key, the flag is true from
\* the end of startup on and every /health response, whatever the interleaving
\* of the requests, reports ai_status = "operational".
C1_HealthOperational ==
    NonEmptyCredentialRead =>
        /\ gemini_available
        /\ \A i \in HealthAnswers : responses[i].body.ai_status = "operational"

\* Two /health requests were answered in one run with a non-empty credential.
C1_Witness ==
    /\ NonEmptyCredentialRead
    /\ \E i \in HealthAnswers, j \in HealthAnswers :
          i # j /\ responses[i].body.ai_status = "operational"

\* C2: the flag is False as long as startup has not written it, and a /health
\* request answered while the flag is not true reports "unavailable".
C2_HealthUnavailableUntilSet ==
    [][/\ (flag_writes' = 0 => ~gemini_available')
       /\ \A i \in NewlyAnswered :
             (responses'[i].via = "health_check" /\ ~gemini_available)
                 => responses'[i].body.ai_status = "unavailable"]_vars

C2_Witness ==
    \E i \in HealthAnswers :
        ~gemini_available /\ responses[i].body.ai_status = "unavailable"

\* C3: when get_config() fails inside startup the failure is swallowed: the flag
\* is False, startup goes on to the yield and to serving, and /health reports
\* "unavailable".
C3_ConfigFailureDegrades ==
    cfg_result.status = "failed" =>
        /\ ~gemini_available
        /\ phase # "aborted"
        /\ pc \in {"yield", "yielded", "done"}
        /\ (pc = "yield" => ENABLED Yield)
        /\ \A i \in HealthAnswers : responses[i].body.ai_status = "unavailable"

C3_Witness ==
    /\ cfg_result.status = "failed"
    /\ phase = "serving"
    /\ HealthAnswers # {}

\* C4: when init_database() fails, startup is aborted: the server never serves,
\* no request is accepted or answered, startup does not write the flag (it
\* keeps its default False) and the shutdown notification is not printed.
C4_DatabaseFailureAborts ==
    db_result = "failed" =>
        /\ phase = "aborted"
        /\ pc = "raised"
        /\ next_id = 0
        /\ inflight = {}
        /\ Answered = {}
        /\ flag_writes = 0
        /\ ~gemini_available
        /\ shutdown_count = 0

C4_Witness == db_result = "failed" /\ phase = "aborted"

LinearSteps ==
    {<<"not_started", "starting">>, <<"starting", "serving">>,
     <<"serving", "stopping">>, <<"stopping", "stopped">>}

\* The order of the hooks and of request handling, as a predicate on steps:
\* requests are accepted and answered only after the whole startup part has
\* run, the shutdown part begins only after accepting has stopped, and the
\* flag is computed only after init_database has returned.
HooksOrdered ==
    /\ next_id' > next_id =>
          /\ phase = "serving"
          /\ pc = "yielded"
          /\ db_result = "ok"
          /\ cfg_result.status # "unread"
    /\ NewlyAnswered # {} => pc = "yielded"
    /\ shutdown_count' > shutdown_count => phase = "stopping"
    /\ (flag_writes' > flag_writes \/ cfg_result' # cfg_result) => db_result = "ok"

\* C5 as stated: the lifecycle only takes the steps not-started -> starting ->
\* serving -> stopping -> stopped, each hook has run exactly once when the
\* process ends, and the hooks and the requests are ordered.
C5_StrictlyLinear ==
    [][/\ phase' # phase => <<phase, phase'>> \in LinearSteps
       /\ phase' \in {"stopped", "aborted"} => startup_count' = 1 /\ shutdown_count' = 1
       /\ HooksOrdered]_vars

\* C5, amended: the lifecycle only takes the steps not-started -> starting ->
\* serving -> stopping -> stopped, or leaves starting for the aborted state when
\* init_database fails; no hook runs twice, both have run exactly once when
\* stopped is reached and the shutdown part has not run when startup aborted;
\* the hooks and the requests are ordered.
C5_LinearUnlessAborted ==
    [][/\ phase' # phase =>
             \/ <<phase, phase'>> \in LinearSteps
             \/ <<phase, phase'>> = <<"starting", "aborted">> /\ db_result' = "failed"
       /\ startup_count' <= 1 /\ shutdown_count' <= 1
       /\ phase' = "stopped" => startup_count' = 1 /\ shutdown_count' = 1
       /\ phase' = "aborted" => startup_count' = 1 /\ shutdown_count' = 0
       /\ HooksOrdered]_vars

C5_Witness ==
    /\ phase = "stopped"
    /\ startup_count = 1
    /\ shutdown_count = 1
    /\ Answered # {}

\* C6: the flag is False at construction, is assigned at most once, only by the
\* startup part of lifespan, and no step after that assignment (a request
\* handler, the exception handler, the shutdown part) changes it.
C6_FlagWriteOnce ==
    [][/\ flag_writes' <= 1
       /\ (flag_writes' = 0 => gemini_available' = FALSE)
       /\ (gemini_available' # gemini_available \/ flag_writes' # flag_writes)
             => (phase = "starting" /\ pc = "expose_flag")
       /\ pc \in {"yield", "yielded", "done"} => gemini_available' = gemini_available]_vars

C6_Witness ==
    /\ flag_writes = 1
    /\ gemini_available
    /\ phase = "stopped"
    /\ \E i \in Answered : responses[i].via = "global_exception_handler"

\* C7: a request whose route handler raised is answered with status 500 and
\* the fixed body, which does not contain the exception's text, and answering
\* it changes nothing of the server's state.
C7_UniformErrorEnvelope ==
    [][\A i \in NewlyAnswered :
          responses'[i].exc \in ExceptionTexts =>
              /\ responses'[i].status = 500
              /\ responses'[i].body =
                     [success |-> FALSE,
                      error   |-> "Internal server error",
                      message |-> "Something went wrong. Please try again."]
              /\ responses'[i].exc \notin
                     {responses'[i].body.error, responses'[i].body.message}
              /\ UNCHANGED <<phase, pc, gemini_available, static_mounted, client_url>>]_vars

C7_Witness ==
    \E i \in Answered :
        /\ responses[i].exc \in ExceptionTexts
        /\ responses[i].status = 500
        /\ phase = "serving"

\* C8: without a static directory at load there is no mount and a request
\* under /static gets the router's not-found response; /favicon.ico answers
\* 200 with {"detail": "favicon not found"} when favicon.svg is absent (so
\* also when the directory is) and with the file when it is present.
C8_StaticAndFavicon ==
    /\ ~dir_at_load => ~static_mounted
    /\ \A i \in Answered :
          /\ (responses[i].path = "/static/favicon.svg" /\ ~static_mounted)
                => (responses[i].via = "router_not_found" /\ responses[i].status = 404)
          /\ (responses[i].path = "/favicon.ico" /\ ~responses[i].seen.file)
                => /\ responses[i].status = 200
                   /\ responses[i].body = [detail |-> "favicon not found"]
          /\ (responses[i].path = "/favicon.ico" /\ responses[i].seen.file)
                => /\ responses[i].status = 200
                   /\ responses[i].body =
                         [file |-> "static/favicon.svg", media_type |-> "image/svg+xml"]

C8_Witness ==
    /\ ~dir_at_load
    /\ ~dir_exists
    /\ \E i \in Answered, j \in Answered :
          /\ responses[i].path = "/static/favicon.svg"
          /\ responses[i].status = 404
          /\ responses[j].path = "/favicon.ico"
          /\ responses[j].body = [detail |-> "favicon not found"]

\* C9 as stated: every response, from whichever route or handler, carries the
\* configured CORS policy: the CLIENT_URL origin (or *), credentials allowed,
\* wildcard methods and headers.
C9_CorsOnEveryResponse ==
    \A i \in Answered :
        responses[i].cors =
            [allow_origins     |-> <<IF client_url = None THEN "*" ELSE client_url[1]>>,
             allow_credentials |-> TRUE,
             allow_methods     |-> <<"*">>,
             allow_headers     |-> <<"*">>]

\* C10: the /static mount never changes after load (a directory created later
\* is never served by it), while /favicon.ico answers with the file exactly
\* when favicon.svg exists at the time of the request.
C10_MountFixedFaviconLive ==
    [][/\ static_mounted' = static_mounted
       /\ static_mounted' = dir_at_load'
       /\ \A i \in NewlyAnswered :
             /\ responses'[i].path = "/favicon.ico"
                   => (("file" \in DOMAIN responses'[i].body) <=> file_exists)
             /\ responses'[i].via = "static_mount" => dir_at_load]_vars

\* /favicon.ico served the file although /static is not mounted.
C10_Witness ==
    /\ ~static_mounted
    /\ \E i \in Answered, j \in Answered :
          /\ responses[i].path = "/favicon.ico"
          /\ "file" \in DOMAIN responses[i].body
          /\ responses[j].path = "/static/favicon.svg"
          /\ responses[j].status = 404

====
